---- MODULE Spec2Model ----
(***************************************************************************)
(* A model of combined_excel_to_pinecone.py: the Excel aggregation         *)
(* (ExcelDataProcessor), the text rendering of one employee record         *)
(* (EmployeeDataStructure.to_text_for_embedding) and the namespaced upload *)
(* (SecurePineconeUploader.upload_documents).                              *)
(*                                                                         *)
(* Conventions.                                                            *)
(*  - A spreadsheet cell is a typed value (NoneCell, IntCell, FloatCell,   *)
(*    StrCell, NumCell); str and float_or_0 do to it what Python's str()   *)
(*    and float(x or 0) do.                                                *)
(*  - Money is fixed point: the integer h stands for h/2 won, so that the  *)
(*    float amounts 0.5, 1.0, 1.5 ... exist and the ":,.0f" rendering      *)
(*    (fmt_0f) really rounds.                                              *)
(*  - A Python dict is a function; self.employees also keeps its insertion *)
(*    order (keys). Korean keys are written in English.                    *)
(*  - One action is one iteration of a sheet's row loop. The action of a   *)
(*    row of a later sheet stands for the end of the current loop, the     *)
(*    loops over the empty sheets in between, and that row.                *)
(***************************************************************************)
EXTENDS Integers, Sequences, FiniteSets, TLC

\* Bounds of the model: the size of the workbook (rows read over all sheets
\* plus sheets that cannot be read), and the derivation passes run again after
\* process_all has returned.
MaxInputs == 2
MaxRecalc == 1
\* the entries of a rendered record's list; the documents and the batch size
\* given to upload_documents
MaxEntries == 3
MaxDocs == 3
MaxBatch == 2
\* the calls of generate_employee_centric_documents on one map
MaxGenerate == 2
\* the entries of each list of a record whose sections are rendered
MaxSection == 2

VARIABLES
    pc,         \* the source process_all is at, or "returned" / "aborted"
    ridx,       \* rows of the current sheet already iterated (iterrows index)
    nrows,      \* rows read so far over all sheets
    employees,  \* self.employees: [rec |-> key -> record, keys |-> insertion order]
    unreadable, \* history: sources whose read_excel raised inside safe_read_sheet
    failed,     \* history: optional sources whose row loop raised
    snap,       \* history: self.employees when the current optional source began
    shadow,     \* history: the run without the first failed optional source
    calc_runs,  \* number of derivation passes run
    override_log, \* history: the override rows read without an exception
    last,       \* history: the row read by the latest iteration, and its outcome
    \* to_text_for_embedding
    record,     \* the EmployeeDataStructure being rendered
    text,       \* the parts it returned, or NoText
    generated,  \* history: what each generate_employee_centric_documents returned
    \* upload_documents
    documents,  \* the documents argument
    batch_size, \* the batch_size argument
    upc,        \* "idle", "grouped", "done", "raised"
    docs_by_employee, \* the groups, in insertion order
    gi,         \* index of the group being uploaded
    bi,         \* batch_idx within the group
    calls,      \* history: the embedding and upsert calls made
    total_uploaded

pvars == <<pc, ridx, nrows, employees, unreadable, failed, snap, shadow,
           calc_runs, override_log, last>>
tvars == <<record, text, generated>>
uvars == <<documents, batch_size, upc, docs_by_employee, gi, bi, calls,
           total_uploaded>>
vars == <<pvars, tvars, uvars>>

-----------------------------------------------------------------------------
(* Cells and the Python conversions applied to them *)

NoneCell == [ty |-> "none"]
IntCell(n) == [ty |-> "int", n |-> n]
FloatCell(n) == [ty |-> "float", n |-> n]
StrCell(s) == [ty |-> "str", s |-> s]
NumCell(h) == [ty |-> "num", h |-> h]
\* float('nan'), the object obj: equal to nothing, itself included
NanCell(obj) == [ty |-> "nan", obj |-> obj]

\* pd.notna(cell)
pd_notna(c) == c.ty # "none"

\* str(cell): 12345 -> "12345", 12345.0 -> "12345.0", None -> "None"
str(c) ==
    CASE c.ty = "none" -> "None"
      [] c.ty = "nan" -> "nan"
      [] c.ty = "int" -> ToString(c.n)
      [] c.ty = "float" -> ToString(c.n) \o ".0"
      [] OTHER -> c.s

\* float(cell or 0) raises ValueError on text that is no number
float_raises(c) == c.ty = "str"

\* float(cell or 0): blank -> 0.0
float_or_0(c) == IF c.ty = "num" THEN c.h ELSE 0

-----------------------------------------------------------------------------
(* The employee map *)

EmptyDict == [k \in {} |-> 0]

DictSet(d, k, v) == [j \in DOMAIN d \cup {k} |-> IF j = k THEN v ELSE d[j]]

EmployeeDataStructure ==
    [sabon |-> "",
     employee_profile |-> EmptyDict,
     commission_contracts |-> <<>>,
     override_records |-> <<>>,
     policy_contracts |-> <<>>,
     performance_records |-> <<>>,
     additional_allowances |-> EmptyDict,
     clawback_records |-> <<>>,
     summary_financials |-> EmptyDict]

NoEmployees == [rec |-> EmptyDict, keys |-> <<>>]

\* if sabon not in self.employees: self.employees[sabon] = EmployeeDataStructure()
Create(E, sabon) ==
    IF sabon \in DOMAIN E.rec THEN E
    ELSE [rec |-> DictSet(E.rec, sabon, EmployeeDataStructure),
          keys |-> Append(E.keys, sabon)]

\* ... followed by self.employees[sabon].sabon = sabon
CreateWithSabon(E, sabon) ==
    IF sabon \in DOMAIN E.rec THEN E
    ELSE [rec |-> DictSet(E.rec, sabon, [EmployeeDataStructure EXCEPT !.sabon = sabon]),
          keys |-> Append(E.keys, sabon)]

SetField(E, sabon, f, v) == [E EXCEPT !.rec[sabon][f] = v]

AppendTo(E, sabon, f, entry) ==
    [E EXCEPT !.rec[sabon][f] = Append(@, entry)]

-----------------------------------------------------------------------------
(* The sources, in the order process_all reads them *)

Phases ==
    <<"roster", "commission", "override", "policy", "performance",
      "allow_sichaek2", "allow_sonbo_ext", "allow_new_ip", "allow_mgr",
      "allow_retention13",
      "claw_sichaek2", "claw_referral", "claw_education">>

RequiredSources == {"roster", "commission", "override", "policy"}
SingleAllowanceSources ==
    {"allow_sichaek2", "allow_sonbo_ext", "allow_new_ip", "allow_mgr"}
AllowanceSources == SingleAllowanceSources \cup {"allow_retention13"}
ClawbackSources == {"claw_sichaek2", "claw_referral", "claw_education"}
OptionalSources == {"performance"} \cup AllowanceSources \cup ClawbackSources
Sources == RequiredSources \cup OptionalSources

\* the key of additional_allowances each allowance sheet writes
AllowanceKey(src) ==
    CASE src = "allow_sichaek2" -> "sichaek2_branch"
      [] src = "allow_sonbo_ext" -> "sonbo_ext"
      [] src = "allow_new_ip" -> "new_ip_allowance"
      [] src = "allow_mgr" -> "mgr_sangsaeng"
      [] OTHER -> "retention13"

\* the clawback-type tag each clawback sheet writes
ClawbackType(src) ==
    CASE src = "claw_sichaek2" -> "sichaek2_paid"
      [] src = "claw_referral" -> "referral_fee"
      [] OTHER -> "education_fee"

PhaseIndex(p) == CHOOSE i \in 1..Len(Phases) : Phases[i] = p


-----------------------------------------------------------------------------
(* One iteration of each row loop, as a function of the map and the row.   *)
(* A row whose numeric cell is text raises inside the iteration: the       *)
(* result is then the map as the statements before the raise left it.      *)

\* process_individual_statements, loop body
individual_statement_row(E, row) ==
    LET sabon == str(row.sabon)
        E1 == SetField(Create(E, sabon), sabon, "sabon", sabon)
        E2 == SetField(E1, sabon, "employee_profile", [name |-> row.name])
    IN  IF float_raises(row.amount) THEN E2
        ELSE SetField(E2, sabon, "summary_financials",
                      [final_payment |-> float_or_0(row.amount)])

\* a faulty loop body: a commission row also rewrites the reported summary of
\* its employee
commission_row_clobbering(E, row) ==
    LET sabon == str(row.sabon)
        E1 == CreateWithSabon(E, sabon)
    IN  IF float_raises(row.amount) THEN E1
        ELSE SetField(AppendTo(E1, sabon, "commission_contracts",
                               [insurer |-> row.insurer,
                                payout_total |-> float_or_0(row.amount)]),
                      sabon, "summary_financials",
                      [final_payment |-> float_or_0(row.amount)])

\* process_commission_contracts, loop body
commission_row(E, row) ==
    LET sabon == str(row.sabon)
        E1 == CreateWithSabon(E, sabon)
    IN  IF float_raises(row.amount) THEN E1
        ELSE AppendTo(E1, sabon, "commission_contracts",
                      [insurer |-> row.insurer,
                       payout_total |-> float_or_0(row.amount)])

\* the receiver entry of an override row (ridx: the row's index in the sheet,
\* kept to tell the rows apart)
override_entry(row, idx) ==
    [role |-> "receiver",
     otype |-> row.otype,
     FC_sabon |-> str(row.fc),
     amount |-> float_or_0(row.amount),
     row |-> idx]

\* a faulty copy: it keeps the receiver tag of the entry it copies
fc_override_entry_untagged(override, receiver_sabon) ==
    [role |-> override.role,
     otype |-> override.otype,
     FC_sabon |-> override.FC_sabon,
     amount |-> override.amount,
     row |-> override.row,
     receiver_sabon |-> receiver_sabon]

\* fc_override = override.copy(); role 'fc'; back-reference to the receiver
fc_override_entry(override, receiver_sabon) ==
    [role |-> "fc",
     otype |-> override.otype,
     FC_sabon |-> override.FC_sabon,
     amount |-> override.amount,
     row |-> override.row,
     receiver_sabon |-> receiver_sabon]

\* a faulty loop body: fc_override is the appended dict itself, not a copy, so
\* tagging it retags the receiver's entry
override_row_aliased(E, row, idx) ==
    LET receiver_sabon == str(row.receiver)
        E1 == CreateWithSabon(E, receiver_sabon)
        shared == fc_override_entry(override_entry(row, idx), receiver_sabon)
        E2 == AppendTo(E1, receiver_sabon, "override_records", shared)
        fc_sabon == str(row.fc)
        E3 == CreateWithSabon(E2, fc_sabon)
    IN  IF float_raises(row.amount) THEN E1
        ELSE AppendTo(E3, fc_sabon, "override_records", shared)

\* a faulty loop body: a row whose receiver is its own FC gets no fc entry
override_row_self_once(E, row, idx) ==
    LET receiver_sabon == str(row.receiver)
        E1 == CreateWithSabon(E, receiver_sabon)
        override == override_entry(row, idx)
        E2 == AppendTo(E1, receiver_sabon, "override_records", override)
        fc_sabon == str(row.fc)
        E3 == CreateWithSabon(E2, fc_sabon)
    IN  IF float_raises(row.amount) THEN E1
        ELSE IF fc_sabon = receiver_sabon THEN E2
        ELSE AppendTo(E3, fc_sabon, "override_records",
                      fc_override_entry(override, receiver_sabon))

\* process_override_records, loop body
override_row(E, row, idx) ==
    LET receiver_sabon == str(row.receiver)
        E1 == CreateWithSabon(E, receiver_sabon)
        override == override_entry(row, idx)
        E2 == AppendTo(E1, receiver_sabon, "override_records", override)
        fc_sabon == str(row.fc)
        E3 == CreateWithSabon(E2, fc_sabon)
    IN  IF float_raises(row.amount) THEN E1
        ELSE AppendTo(E3, fc_sabon, "override_records",
                      fc_override_entry(override, receiver_sabon))

\* process_override_records, loop body, on a sheet without the FC identifier
\* column: row.get gives None, the receiver entry is appended, and
\* row['[FC] ...'] raises KeyError
override_row_no_fc_column(E, row, idx) ==
    LET receiver_sabon == str(row.receiver)
        E1 == CreateWithSabon(E, receiver_sabon)
    IN  IF float_raises(row.amount) THEN E1
        ELSE AppendTo(E1, receiver_sabon, "override_records",
                      override_entry([row EXCEPT !.fc = NoneCell], idx))

\* process_policy_contracts, loop body
policy_row(E, row) ==
    LET sabon == str(row.sabon)
        E1 == CreateWithSabon(E, sabon)
    IN  IF float_raises(row.amount) THEN E1
        ELSE AppendTo(E1, sabon, "policy_contracts",
                      [payout |-> float_or_0(row.amount)])

\* a faulty role column: an employee no earlier row created gets no record
performance_field_existing_only(E, cell, role) ==
    IF pd_notna(cell) /\ str(cell) \in DOMAIN E.rec
    THEN AppendTo(E, str(cell), "performance_records", [role |-> role])
    ELSE E

\* process_performance_records: one role column of one row
performance_field(E, cell, role) ==
    IF pd_notna(cell)
    THEN AppendTo(CreateWithSabon(E, str(cell)), str(cell),
                  "performance_records", [role |-> role])
    ELSE E

\* a faulty loop body: an employee named in several role columns of one row
\* gets an entry for the first of them only
performance_row_once_per_employee(E, row) ==
    LET E1 == performance_field(E, row.collector, "collector_LP")
        E2 == IF pd_notna(row.recruiter) /\ row.recruiter = row.collector THEN E1
              ELSE performance_field(E1, row.recruiter, "recruiter_LP")
    IN  IF pd_notna(row.original) /\ row.original \in {row.collector, row.recruiter}
        THEN E2
        ELSE performance_field(E2, row.original, "original_recruiter_FC")

\* process_performance_records, loop body: the three role columns in order
performance_row(E, row) ==
    performance_field(
        performance_field(
            performance_field(E, row.collector, "collector_LP"),
            row.recruiter, "recruiter_LP"),
        row.original, "original_recruiter_FC")

\* a faulty loop body: an allowance already recorded for the employee is kept
allowance_row_first_wins(E, src, row) ==
    IF ~pd_notna(row.sabon) THEN E
    ELSE LET sabon == str(row.sabon)
             E1 == CreateWithSabon(E, sabon)
             old == E1.rec[sabon].additional_allowances
         IN  IF float_raises(row.amount) \/ AllowanceKey(src) \in DOMAIN old THEN E1
             ELSE SetField(E1, sabon, "additional_allowances",
                           DictSet(old, AllowanceKey(src),
                                   [kind |-> "one",
                                    amount |-> float_or_0(row.amount)]))

\* process_additional_allowances, loop body of a one-structure sheet
allowance_row(E, src, row) ==
    IF ~pd_notna(row.sabon) THEN E
    ELSE LET sabon == str(row.sabon)
             E1 == CreateWithSabon(E, sabon)
         IN  IF float_raises(row.amount) THEN E1
             ELSE SetField(E1, sabon, "additional_allowances",
                           DictSet(E1.rec[sabon].additional_allowances,
                                   AllowanceKey(src),
                                   [kind |-> "one",
                                    amount |-> float_or_0(row.amount)]))

\* process_additional_allowances, loop body of the 13th-month retention sheet
retention_row(E, src, row) ==
    IF ~pd_notna(row.sabon) THEN E
    ELSE LET sabon == str(row.sabon)
             E1 == CreateWithSabon(E, sabon)
             key == AllowanceKey(src)
             old == E1.rec[sabon].additional_allowances
             lst == IF key \in DOMAIN old THEN old[key].items ELSE <<>>
         IN  IF float_raises(row.amount) THEN E1
             ELSE SetField(E1, sabon, "additional_allowances",
                           DictSet(old, key,
                                   [kind |-> "list",
                                    items |-> Append(lst,
                                        [paid |-> float_or_0(row.amount)])]))

\* process_clawback_records, loop body of one clawback sheet
clawback_row(E, src, row) ==
    IF ~pd_notna(row.sabon) THEN E
    ELSE LET sabon == str(row.sabon)
             E1 == CreateWithSabon(E, sabon)
         IN  IF float_raises(row.amount) THEN E1
             ELSE AppendTo(E1, sabon, "clawback_records",
                           [ctype |-> ClawbackType(src),
                            amount |-> float_or_0(row.amount)])

\* whether the iteration raises (ValueError of float())
row_raises(row) == float_raises(row.amount)

\* an optional row with a blank key cell is skipped before any conversion
optional_row_raises(row) == pd_notna(row.sabon) /\ float_raises(row.amount)

-----------------------------------------------------------------------------
(* calculate_aggregated_financials *)

RECURSIVE SumField(_, _)
\* sum(x.get(f, 0) for x in list)
SumField(list, f) ==
    IF list = <<>> THEN 0
    ELSE SumField(SubSeq(list, 1, Len(list) - 1), f) + list[Len(list)][f]

IsReceiver(o) == o.role = "receiver"

\* a faulty total: the sum over every entry, whatever its role
total_override_unfiltered(emp) == SumField(emp.override_records, "amount")

\* sum(o.get(amount, 0) for o in emp.override_records if o.get(role) == 'receiver')
total_override(emp) ==
    SumField(SelectSeq(emp.override_records, IsReceiver), "amount")

\* len([o for o in emp.override_records if o.get(role) == 'receiver'])
override_count(emp) == Len(SelectSeq(emp.override_records, IsReceiver))

DerivedKeys ==
    {"total_commission", "total_override", "total_policy", "total_clawback",
     "contract_count", "override_count", "policy_count", "clawback_count"}

\* a faulty derivation: += in place of = for the four totals
derive_summary_accumulating(emp) ==
    LET old == emp.summary_financials
        was(k) == IF k \in DOMAIN old THEN old[k] ELSE 0
        derived ==
          [total_commission |-> was("total_commission")
                                + SumField(emp.commission_contracts, "payout_total"),
           total_override |-> was("total_override")
                              + SumField(SelectSeq(emp.override_records, IsReceiver),
                                         "amount"),
           total_policy |-> was("total_policy")
                            + SumField(emp.policy_contracts, "payout"),
           total_clawback |-> was("total_clawback")
                              + SumField(emp.clawback_records, "amount"),
           contract_count |-> Len(emp.commission_contracts),
           override_count |-> Len(SelectSeq(emp.override_records, IsReceiver)),
           policy_count |-> Len(emp.policy_contracts),
           clawback_count |-> Len(emp.clawback_records)]
    IN  [k \in DOMAIN old \cup DOMAIN derived |->
            IF k \in DOMAIN derived THEN derived[k] ELSE old[k]]

\* the eight assignments emp.summary_financials[key] = value
derive_summary(emp) ==
    LET derived ==
          [total_commission |-> SumField(emp.commission_contracts, "payout_total"),
           total_override |-> total_override(emp),
           total_policy |-> SumField(emp.policy_contracts, "payout"),
           total_clawback |-> SumField(emp.clawback_records, "amount"),
           contract_count |-> Len(emp.commission_contracts),
           override_count |-> override_count(emp),
           policy_count |-> Len(emp.policy_contracts),
           clawback_count |-> Len(emp.clawback_records)]
        old == emp.summary_financials
    IN  [k \in DOMAIN old \cup DerivedKeys |->
            IF k \in DerivedKeys THEN derived[k] ELSE old[k]]

\* a faulty pass: it visits only the records the roster gave a profile
aggregated_financials_roster_only(E) ==
    [E EXCEPT !.rec = [k \in DOMAIN E.rec |->
        IF E.rec[k].employee_profile = EmptyDict THEN E.rec[k]
        ELSE [E.rec[k] EXCEPT !.summary_financials = derive_summary(E.rec[k])]]]

\* the loop over self.employees.items()
aggregated_financials(E) ==
    [E EXCEPT !.rec = [k \in DOMAIN E.rec |->
        [E.rec[k] EXCEPT !.summary_financials = derive_summary(E.rec[k])]]]


-----------------------------------------------------------------------------
(* The workbook: what a cell of each column may hold *)

IdCells == {StrCell("1"), StrCell("2"), NoneCell}
TypedIdCells == {IntCell(1), FloatCell(1), StrCell("1")}
AmountCells == {NoneCell, NumCell(1), StrCell("x")}
Names == {"A", "B"}
Insurers == {"A", "B"}
OverrideTypes == {"BM", "MD"}

\* the insurer and the override type of a sheet row: process_all copies these
\* cells into the entry and never reads them, so the sheets hold one value of
\* each; the grouping by them is exercised on the records given to
\* to_text_for_embedding
SheetInsurers == {"A"}
SheetOverrideTypes == {"BM"}

RosterRows(ids) == [sabon : ids, name : Names, amount : AmountCells]
CommissionRows(ids) == [sabon : ids, insurer : SheetInsurers, amount : AmountCells]
OverrideRows(ids) ==
    [receiver : ids, fc : ids, otype : SheetOverrideTypes, amount : AmountCells]
PolicyRows(ids) == [sabon : ids, amount : AmountCells]
PerformanceRows(ids) == [collector : ids, recruiter : ids, original : ids]
OptionalRows(ids) == [sabon : ids, amount : AmountCells]

-----------------------------------------------------------------------------
(* EmployeeDataStructure.to_text_for_embedding: the parts it joins, each   *)
(* part a record of the values formatted into the line                     *)

\* f"{x:,.0f}": x rounded to a whole number, a half to the even neighbour
\* (x = h/2); the result is the number whose digits are shown
fmt_0f(h) ==
    LET q == h \div 2
    IN  IF h % 2 = 0 THEN q
        ELSE IF q % 2 = 0 THEN q ELSE q + 1

\* dict.get(key, default)
DictGet(d, k, default) == IF k \in DOMAIN d THEN d[k] ELSE default

Contains(seq, x) == \E i \in 1..Len(seq) : seq[i] = x

RECURSIVE group_keys_last_first(_, _)
\* a faulty key order: a key is placed by its last appearance, latest first
group_keys_last_first(list, f) ==
    IF list = <<>> THEN <<>>
    ELSE LET rest == group_keys_last_first(Tail(list), f)
             key == Head(list)[f]
         IN  IF Contains(rest, key) THEN rest ELSE Append(rest, key)

RECURSIVE group_keys(_, _)
\* the keys of by_insurer / by_type: the values of field f, in the order each
\* first appears in the list
group_keys(list, f) ==
    IF list = <<>> THEN <<>>
    ELSE LET before == group_keys(SubSeq(list, 1, Len(list) - 1), f)
             key == list[Len(list)][f]
         IN  IF Contains(before, key) THEN before ELSE Append(before, key)

\* by_insurer[key] / by_type[key]: the entries appended under the key
group_of(list, f, key) == SelectSeq(list, LAMBDA e : e[f] = key)

profile_parts(emp) ==
    IF emp.employee_profile = EmptyDict THEN <<>>
    ELSE <<[part |-> "profile", sabon |-> emp.sabon,
            name |-> DictGet(emp.employee_profile, "name", "")]>>

summary_parts(emp) ==
    IF emp.summary_financials = EmptyDict THEN <<>>
    ELSE LET sf == emp.summary_financials
         IN <<[part |-> "summary",
               final_payment |-> fmt_0f(DictGet(sf, "final_payment", 0)),
               total_commission |-> fmt_0f(DictGet(sf, "total_commission", 0)),
               total_override |-> fmt_0f(DictGet(sf, "total_override", 0)),
               total_policy |-> fmt_0f(DictGet(sf, "total_policy", 0)),
               total_clawback |-> fmt_0f(DictGet(sf, "total_clawback", 0))]>>

\* one "  - {insurer}: {count}, {amount}" line per key of by_insurer
insurer_lines(list) ==
    LET keys == group_keys(list, "insurer")
    IN  [i \in 1..Len(keys) |->
            [part |-> "commission_group",
             key |-> keys[i],
             count |-> Len(group_of(list, "insurer", keys[i])),
             amount |-> fmt_0f(SumField(group_of(list, "insurer", keys[i]),
                                        "payout_total"))]]

commission_parts(emp) ==
    IF emp.commission_contracts = <<>> THEN <<>>
    ELSE <<[part |-> "commission_header",
            count |-> Len(emp.commission_contracts)],
           [part |-> "commission_total",
            amount |-> fmt_0f(SumField(emp.commission_contracts,
                                       "payout_total"))],
           [part |-> "commission_by_insurer"]>>
         \o insurer_lines(emp.commission_contracts)

\* one "  - {otype}: {count}, {amount}" line per key of by_type
override_type_lines(list) ==
    LET keys == group_keys(list, "otype")
    IN  [i \in 1..Len(keys) |->
            [part |-> "override_group",
             key |-> keys[i],
             count |-> Len(group_of(list, "otype", keys[i])),
             amount |-> fmt_0f(SumField(group_of(list, "otype", keys[i]),
                                        "amount"))]]

override_parts(emp) ==
    IF emp.override_records = <<>> THEN <<>>
    ELSE <<[part |-> "override_header", count |-> Len(emp.override_records)],
           [part |-> "override_total",
            amount |-> fmt_0f(SumField(emp.override_records, "amount"))]>>
         \o override_type_lines(emp.override_records)

\* a faulty section: it is shown for an empty list too ("0" filler)
policy_parts_with_filler(emp) ==
    <<[part |-> "policy_header", count |-> Len(emp.policy_contracts)],
      [part |-> "policy_total",
       amount |-> fmt_0f(SumField(emp.policy_contracts, "payout"))]>>

policy_parts(emp) ==
    IF emp.policy_contracts = <<>> THEN <<>>
    ELSE <<[part |-> "policy_header", count |-> Len(emp.policy_contracts)],
           [part |-> "policy_total",
            amount |-> fmt_0f(SumField(emp.policy_contracts, "payout"))]>>

\* the "  - {key}: {amount}" lines: a dict value with amount > 0 is shown, a
\* list value is neither a number nor a dict and is not
allowance_parts(emp) ==
    IF emp.additional_allowances = EmptyDict THEN <<>>
    ELSE LET aa == emp.additional_allowances
         IN <<[part |-> "allowance_header",
               shown |-> {[key |-> k, amount |-> fmt_0f(aa[k].amount)] :
                          k \in {j \in DOMAIN aa :
                                   aa[j].kind = "one" /\ aa[j].amount > 0}}]>>

\* one "  - {ctype}: {amount}" line per key of by_type
clawback_type_lines(list) ==
    LET keys == group_keys(list, "ctype")
    IN  [i \in 1..Len(keys) |->
            [part |-> "clawback_group",
             key |-> keys[i],
             amount |-> fmt_0f(SumField(group_of(list, "ctype", keys[i]),
                                        "amount"))]]

clawback_parts(emp) ==
    IF emp.clawback_records = <<>> THEN <<>>
    ELSE <<[part |-> "clawback_header", count |-> Len(emp.clawback_records)],
           [part |-> "clawback_total",
            amount |-> fmt_0f(SumField(emp.clawback_records, "amount"))]>>
         \o clawback_type_lines(emp.clawback_records)

performance_parts(emp) ==
    IF emp.performance_records = <<>> THEN <<>>
    ELSE <<[part |-> "performance_header",
            count |-> Len(emp.performance_records)]>>

to_text_for_embedding(emp) ==
    profile_parts(emp) \o summary_parts(emp) \o commission_parts(emp)
    \o override_parts(emp) \o policy_parts(emp) \o allowance_parts(emp)
    \o clawback_parts(emp) \o performance_parts(emp)

NoText == [done |-> FALSE, parts |-> <<>>]

\* the records rendered: any commission list of at most MaxEntries entries,
\* each payout 0.5, 1, 1.5 or 2 won
Payouts == {1, 2, 3, 4}
CommissionEntries == [insurer : Insurers, payout_total : Payouts]
ListsOf(S, n) == UNION {[1..m -> S] : m \in 0..n}
TextRecords ==
    {[EmployeeDataStructure EXCEPT !.sabon = "1", !.commission_contracts = l] :
        l \in ListsOf(CommissionEntries, MaxEntries)}

\* the records whose sections are rendered: each list holds the first n
\* entries, n <= MaxSection, of a run of entries as the sheets produce them;
\* summary_financials is empty or derived
CommissionAt(i) ==
    [insurer |-> IF i % 2 = 1 THEN "A" ELSE "B", payout_total |-> i]
OverrideAt(i) ==
    IF i % 2 = 1
    THEN override_entry([receiver |-> StrCell("1"), fc |-> StrCell("2"),
                         otype |-> "BM", amount |-> NumCell(i)], i - 1)
    ELSE fc_override_entry(
             override_entry([receiver |-> StrCell("2"), fc |-> StrCell("1"),
                             otype |-> "MD", amount |-> NumCell(i)], i - 1),
             "2")
PolicyAt(i) == [payout |-> i]
ClawbackAt(i) ==
    [ctype |-> ClawbackType(IF i % 2 = 1 THEN "claw_sichaek2" ELSE "claw_referral"),
     amount |-> i]
PerformanceAt(i) ==
    [role |-> IF i % 2 = 1 THEN "collector_LP" ELSE "recruiter_LP"]

SectionLists ==
    {[EmployeeDataStructure EXCEPT
         !.sabon = "1",
         !.commission_contracts = [i \in 1..c |-> CommissionAt(i)],
         !.override_records = [i \in 1..o |-> OverrideAt(i)],
         !.policy_contracts = [i \in 1..p |-> PolicyAt(i)],
         !.clawback_records = [i \in 1..w |-> ClawbackAt(i)],
         !.performance_records = [i \in 1..f |-> PerformanceAt(i)]] :
       c \in 0..MaxSection, o \in 0..MaxSection, p \in 0..MaxSection,
       w \in 0..MaxSection, f \in 0..MaxSection}

SectionRecords ==
    SectionLists
    \cup {[r EXCEPT !.summary_financials = derive_summary(r)] : r \in SectionLists}

-----------------------------------------------------------------------------
(* SecurePineconeUploader.upload_documents *)

\* a != b of two identifiers
py_ne(a, b) == a.ty = "nan" \/ b.ty = "nan" \/ a # b

\* a faulty namespace: one for all employees
namespace_shared(sabon) == "employee_"

\* namespace = f"employee_{sabon}"
namespace_of(sabon) == "employee_" \o str(sabon)

RECURSIVE group_documents(_)
\* docs_by_employee: a dict finds a key that is the same object or equal, so
\* a cell finds itself
group_documents(docs) ==
    IF docs = <<>> THEN <<>>
    ELSE LET before == group_documents(SubSeq(docs, 1, Len(docs) - 1))
             doc == docs[Len(docs)]
         IN  IF \E g \in 1..Len(before) : before[g].sabon = doc.sabon
             THEN [g \in 1..Len(before) |->
                      IF before[g].sabon = doc.sabon
                      THEN [before[g] EXCEPT !.docs = Append(@, doc)]
                      ELSE before[g]]
             ELSE Append(before, [sabon |-> doc.sabon, docs |-> <<doc>>])

\* employee_docs[batch_idx:batch_idx + batch_size]
batch_of(employee_docs, batch_idx, size) ==
    SubSeq(employee_docs, batch_idx + 1,
           IF batch_idx + size < Len(employee_docs) THEN batch_idx + size
           ELSE Len(employee_docs))

\* the identifiers a document's metadata may declare: the keys of
\* self.employees are str; NaN is the value that differs from itself
DocSabons == {StrCell("1"), StrCell("2"), NanCell(1)}
DocLists ==
    {[i \in 1..Len(f) |-> [id |-> "d" \o ToString(i), sabon |-> f[i]]] :
        f \in ListsOf(DocSabons, MaxDocs)}

-----------------------------------------------------------------------------
(* process_all: the state machine *)

NoShadow == [on |-> FALSE, src |-> "", E |-> NoEmployees]

NoRow == [src |-> "", row |-> [none |-> TRUE], raised |-> FALSE]

PipelineInit ==
    /\ pc = "roster"
    /\ ridx = 0
    /\ nrows = 0
    /\ employees = NoEmployees
    /\ unreadable = {}
    /\ failed = {}
    /\ snap = NoEmployees
    /\ shadow = NoShadow
    /\ calc_runs = 0
    /\ override_log = <<>>
    /\ last = NoRow

\* process_all reaches sheet src: it is reading it, or it is at an earlier
\* sheet whose remaining loop, and the loops in between, run over no row
Enters(src) == pc \in Sources /\ PhaseIndex(pc) < PhaseIndex(src)
Continues(src) == pc = src /\ src \notin unreadable \cup failed
Reaches(src) == Enters(src) \/ Continues(src)

\* the iterrows index of the row being read
RowIndex(src) == IF pc = src THEN ridx ELSE 0

\* self.employees when the try block of src was entered
SnapAt(src) == IF pc = src THEN snap ELSE employees

InputsLeft == nrows + Cardinality(unreadable) < MaxInputs

\* a faulty except clause: it raises again
except_optional_reraise == "abort"

\* what the except clause of an optional source does with the exception:
\* it prints a warning and process_all goes on
except_optional == "continue"

\* one row of a required source: an exception leaves process_all
RequiredRowStep(src, row, Enew, raises, logged) ==
    /\ Reaches(src)
    /\ last' = [src |-> src, row |-> row, raised |-> raises]
    /\ override_log' = IF raises THEN override_log
                       ELSE override_log \o logged
    /\ InputsLeft
    /\ nrows' = nrows + 1
    /\ employees' = Enew
    /\ pc' = IF raises THEN "aborted" ELSE src
    /\ ridx' = RowIndex(src) + 1
    /\ UNCHANGED <<unreadable, failed, snap, shadow, calc_runs>>
    /\ UNCHANGED <<tvars, uvars>>

\* Each method below is one iteration of its row loop, over the rows a
\* sheet whose key cells are drawn from ids may hold.
CanRead(src) == Reaches(src) /\ InputsLeft

process_individual_statements(ids) ==
    /\ CanRead("roster")
    /\ \E row \in RosterRows(ids) :
          RequiredRowStep("roster", row, individual_statement_row(employees, row),
                          row_raises(row), <<>>)

process_commission_contracts(ids) ==
    /\ CanRead("commission")
    /\ \E row \in CommissionRows(ids) :
          RequiredRowStep("commission", row, commission_row(employees, row),
                          row_raises(row), <<>>)

process_override_records(ids) ==
    /\ CanRead("override")
    /\ \E row \in OverrideRows(ids) :
          RequiredRowStep("override", row,
                          override_row(employees, row, RowIndex("override")),
                          row_raises(row), <<row>>)

\* the override sheet lacks the FC identifier column: KeyError in the first row
process_override_records_no_fc_column(ids) ==
    /\ CanRead("override")
    /\ RowIndex("override") = 0
    /\ \E row \in OverrideRows(ids) :
          RequiredRowStep("override", row,
                          override_row_no_fc_column(employees, row, 0), TRUE,
                          <<>>)

process_policy_contracts(ids) ==
    /\ CanRead("policy")
    /\ \E row \in PolicyRows(ids) :
          RequiredRowStep("policy", row, policy_row(employees, row),
                          row_raises(row), <<>>)

\* row['<key column>'] raises KeyError in the first row of a required sheet
\* that has rows but not its key column
KeyColumnMissing(src) ==
    /\ src \in RequiredSources
    /\ RowIndex(src) = 0
    /\ RequiredRowStep(src, [none |-> TRUE], employees, TRUE, <<>>)

\* one row of the performance sheet (nothing in the loop body raises)
process_performance_records(ids) ==
    /\ CanRead("performance")
    /\ \E row \in PerformanceRows(ids) :
          /\ nrows' = nrows + 1
          /\ employees' = performance_row(employees, row)
          /\ pc' = "performance"
          /\ ridx' = RowIndex("performance") + 1
          /\ last' = [src |-> "performance", row |-> row, raised |-> FALSE]
          /\ UNCHANGED <<unreadable, failed, snap, shadow, calc_runs,
                         override_log, tvars, uvars>>

\* one row of an allowance or clawback sheet, inside its try/except
OptionalRowStep(src, row, Enew, Snew) ==
    /\ Reaches(src)
    /\ last' = [src |-> src, row |-> row, raised |-> optional_row_raises(row)]
    /\ InputsLeft
    /\ nrows' = nrows + 1
    /\ employees' = Enew
    /\ ridx' = RowIndex(src) + 1
    /\ IF optional_row_raises(row)
       THEN /\ failed' = failed \cup {src}
            /\ shadow' = IF shadow.on THEN [shadow EXCEPT !.E = Snew]
                         ELSE [on |-> TRUE, src |-> src, E |-> SnapAt(src)]
            /\ snap' = NoEmployees
            /\ pc' = IF except_optional = "continue" THEN src ELSE "aborted"
       ELSE /\ failed' = failed
            /\ shadow' = IF shadow.on THEN [shadow EXCEPT !.E = Snew]
                         ELSE shadow
            /\ snap' = IF shadow.on THEN NoEmployees ELSE SnapAt(src)
            /\ pc' = src
    /\ UNCHANGED <<unreadable, calc_runs, override_log, tvars, uvars>>

process_additional_allowances(src, ids) ==
    /\ src \in AllowanceSources
    /\ CanRead(src)
    /\ \E row \in OptionalRows(ids) :
          IF src \in SingleAllowanceSources
          THEN OptionalRowStep(src, row, allowance_row(employees, src, row),
                               allowance_row(shadow.E, src, row))
          ELSE OptionalRowStep(src, row, retention_row(employees, src, row),
                               retention_row(shadow.E, src, row))

process_clawback_records(src, ids) ==
    /\ src \in ClawbackSources
    /\ CanRead(src)
    /\ \E row \in OptionalRows(ids) :
          OptionalRowStep(src, row, clawback_row(employees, src, row),
                          clawback_row(shadow.E, src, row))

\* safe_read_sheet: read_excel raises, the error is printed and an empty
\* DataFrame returned, so the row loop of src runs over no row
safe_read_sheet_fails(src) ==
    /\ src \in Sources
    /\ \/ Enters(src)
       \/ Continues(src) /\ ridx = 0
    /\ InputsLeft
    /\ unreadable' = unreadable \cup {src}
    /\ pc' = src
    /\ ridx' = 0
    /\ snap' = NoEmployees
    /\ UNCHANGED <<nrows, employees, failed, shadow, calc_runs,
                   override_log, last, tvars, uvars>>

\* the derivation pass: the last call of process_all (after the loops over
\* the remaining sheets, which hold no row), and any later call
calculate_aggregated_financials ==
    /\ \/ pc \in Sources
       \/ pc = "returned" /\ calc_runs <= MaxRecalc
    /\ employees' = aggregated_financials(employees)
    /\ shadow' = IF shadow.on
                 THEN [shadow EXCEPT !.E = aggregated_financials(shadow.E)]
                 ELSE shadow
    /\ calc_runs' = calc_runs + 1
    /\ pc' = "returned"
    /\ snap' = NoEmployees
    /\ UNCHANGED <<ridx, nrows, unreadable, failed, override_log, last,
                   tvars, uvars>>

Next ==
    \/ process_individual_statements(IdCells)
    \/ process_commission_contracts(IdCells)
    \/ process_override_records(IdCells)
    \/ process_override_records_no_fc_column(IdCells)
    \/ process_policy_contracts(IdCells)
    \/ \E src \in RequiredSources : KeyColumnMissing(src)
    \/ process_performance_records(IdCells)
    \/ \E src \in AllowanceSources : process_additional_allowances(src, IdCells)
    \/ \E src \in ClawbackSources : process_clawback_records(src, IdCells)
    \/ \E src \in Sources : safe_read_sheet_fails(src)
    \/ calculate_aggregated_financials

-----------------------------------------------------------------------------
(* to_text_for_embedding and upload_documents as state machines *)

TextIdle == record = EmployeeDataStructure /\ text = NoText /\ generated = <<>>

UploadIdle ==
    /\ documents = <<>>
    /\ batch_size = 1
    /\ upc = "idle"
    /\ docs_by_employee = <<>>
    /\ gi = 0
    /\ bi = 0
    /\ calls = <<>>
    /\ total_uploaded = 0

\* text = emp.to_text_for_embedding()
Render ==
    /\ ~text.done
    /\ text' = [done |-> TRUE, parts |-> to_text_for_embedding(record)]
    /\ UNCHANGED <<record, generated, pvars, uvars>>

\* upload_documents, up to the loop: the documents are grouped, and the
\* statistics print divides by the number of groups
upload_documents_group ==
    /\ upc = "idle"
    /\ docs_by_employee' = group_documents(documents)
    /\ upc' = IF documents = <<>> THEN "raised" ELSE "grouped"
    /\ gi' = 1
    /\ bi' = 0
    /\ UNCHANGED <<documents, batch_size, calls, total_uploaded, pvars, tvars>>

\* the loops go on to the next batch, the next employee, or end
NextBatch ==
    IF bi + batch_size < Len(docs_by_employee[gi].docs)
    THEN /\ bi' = bi + batch_size
         /\ gi' = gi
         /\ upc' = upc
    ELSE /\ bi' = 0
         /\ gi' = gi + 1
         /\ upc' = IF gi < Len(docs_by_employee) THEN upc ELSE "done"

\* a faulty loop body: a failed embedding call ends the employee's batches
\* (break in place of continue)
upload_documents_batch_break ==
    /\ upc = "grouped"
    /\ LET sabon == docs_by_employee[gi].sabon
           batch == batch_of(docs_by_employee[gi].docs, bi, batch_size)
           embed == [call |-> "embed", texts |-> batch]
           upsert == [call |-> "upsert",
                      namespace |-> namespace_of(sabon),
                      vectors |-> batch]
       IN  \/ \* generate_embeddings_batch raises: break
              /\ calls' = Append(calls, [embed EXCEPT !.call = "embed_raised"])
              /\ total_uploaded' = total_uploaded
              /\ bi' = 0
              /\ gi' = gi + 1
              /\ upc' = IF gi < Len(docs_by_employee) THEN upc ELSE "done"
           \/ \* a document of the batch differs from the group's key: raise
              /\ \E i \in 1..Len(batch) : py_ne(batch[i].sabon, sabon)
              /\ calls' = Append(calls, embed)
              /\ total_uploaded' = total_uploaded
              /\ upc' = "raised"
              /\ UNCHANGED <<gi, bi>>
           \/ \* upsert succeeds
              /\ \A i \in 1..Len(batch) : ~py_ne(batch[i].sabon, sabon)
              /\ calls' = calls \o <<embed, upsert>>
              /\ total_uploaded' = total_uploaded + Len(batch)
              /\ NextBatch
           \/ \* upsert raises: the error is printed
              /\ \A i \in 1..Len(batch) : ~py_ne(batch[i].sabon, sabon)
              /\ calls' = calls \o <<embed, [upsert EXCEPT !.call = "upsert_raised"]>>
              /\ total_uploaded' = total_uploaded
              /\ NextBatch
    /\ UNCHANGED <<documents, batch_size, docs_by_employee, pvars, tvars>>

\* one batch of one employee: embeddings, the vectors with their check, upsert.
\* The two calls are external and either may raise.
upload_documents_batch ==
    /\ upc = "grouped"
    /\ LET sabon == docs_by_employee[gi].sabon
           batch == batch_of(docs_by_employee[gi].docs, bi, batch_size)
           embed == [call |-> "embed", texts |-> batch]
           upsert == [call |-> "upsert",
                      namespace |-> namespace_of(sabon),
                      vectors |-> batch]
       IN  \/ \* generate_embeddings_batch raises: continue
              /\ calls' = Append(calls, [embed EXCEPT !.call = "embed_raised"])
              /\ total_uploaded' = total_uploaded
              /\ NextBatch
           \/ \* a document of the batch differs from the group's key: raise
              /\ \E i \in 1..Len(batch) : py_ne(batch[i].sabon, sabon)
              /\ calls' = Append(calls, embed)
              /\ total_uploaded' = total_uploaded
              /\ upc' = "raised"
              /\ UNCHANGED <<gi, bi>>
           \/ \* upsert succeeds
              /\ \A i \in 1..Len(batch) : ~py_ne(batch[i].sabon, sabon)
              /\ calls' = calls \o <<embed, upsert>>
              /\ total_uploaded' = total_uploaded + Len(batch)
              /\ NextBatch
           \/ \* upsert raises: the error is printed
              /\ \A i \in 1..Len(batch) : ~py_ne(batch[i].sabon, sabon)
              /\ calls' = calls \o <<embed, [upsert EXCEPT !.call = "upsert_raised"]>>
              /\ total_uploaded' = total_uploaded
              /\ NextBatch
    /\ UNCHANGED <<documents, batch_size, docs_by_employee, pvars, tvars>>

-----------------------------------------------------------------------------
(* generate_employee_centric_documents *)

\* a faulty loop: it walks the records from the last created to the first
employee_centric_documents_reversed(E) ==
    [i \in 1..Len(E.keys) |->
        LET sabon == E.keys[Len(E.keys) + 1 - i]
            emp == E.rec[sabon]
        IN  [id |-> sabon \o "_profile",
             doc_type |-> "employee_profile",
             text |-> to_text_for_embedding(emp),
             metadata |->
                [sabon |-> sabon,
                 name |-> DictGet(emp.employee_profile, "name", ""),
                 final_payment |-> DictGet(emp.summary_financials, "final_payment", 0),
                 total_commission |-> DictGet(emp.summary_financials, "total_commission", 0),
                 total_override |-> DictGet(emp.summary_financials, "total_override", 0),
                 contract_count |-> DictGet(emp.summary_financials, "contract_count", 0)]]]

\* documents: one dict per item of self.employees.items(), in the dict's order
employee_centric_documents(E) ==
    [i \in 1..Len(E.keys) |->
        LET sabon == E.keys[i]
            emp == E.rec[sabon]
        IN  [id |-> sabon \o "_profile",
             doc_type |-> "employee_profile",
             text |-> to_text_for_embedding(emp),
             metadata |->
                [sabon |-> sabon,
                 name |-> DictGet(emp.employee_profile, "name", ""),
                 final_payment |-> DictGet(emp.summary_financials, "final_payment", 0),
                 total_commission |-> DictGet(emp.summary_financials, "total_commission", 0),
                 total_override |-> DictGet(emp.summary_financials, "total_override", 0),
                 contract_count |-> DictGet(emp.summary_financials, "contract_count", 0)]]]

\* documents = processor.generate_employee_centric_documents(), on the map
\* process_all returned
generate_employee_centric_documents ==
    /\ pc = "returned"
    /\ Len(generated) < MaxGenerate
    /\ generated' = Append(generated, employee_centric_documents(employees))
    /\ UNCHANGED <<record, text, pvars, uvars>>

-----------------------------------------------------------------------------
(* Specifications *)

Init == PipelineInit /\ TextIdle /\ UploadIdle

\* process_all on any workbook of at most MaxInputs rows and unreadable
\* sheets, then any further derivation passes
Spec == Init /\ [][Next]_vars

\* process_all on a workbook whose roster and commission sheets type the
\* identifier of employee 1 as a number or as text
InitIds == Init
NextIds ==
    \/ process_individual_statements(TypedIdCells)
    \/ process_commission_contracts(TypedIdCells)
    \/ calculate_aggregated_financials
SpecIds == InitIds /\ [][NextIds]_vars

\* process_all over the sheets that create records in different roles, then
\* generate_employee_centric_documents
InitDocs == Init
NextDocs ==
    \/ process_individual_statements(IdCells)
    \/ process_override_records(IdCells)
    \/ process_performance_records(IdCells)
    \/ calculate_aggregated_financials
    \/ generate_employee_centric_documents
SpecDocs == InitDocs /\ [][NextDocs]_vars

\* to_text_for_embedding on any record of TextRecords
InitText ==
    /\ PipelineInit
    /\ UploadIdle
    /\ record \in TextRecords
    /\ text = NoText
    /\ generated = <<>>
NextText == Render
SpecText == InitText /\ [][NextText]_vars

\* to_text_for_embedding on any record of SectionRecords
InitSections ==
    /\ PipelineInit
    /\ UploadIdle
    /\ record \in SectionRecords
    /\ text = NoText
    /\ generated = <<>>
NextSections == Render
SpecSections == InitSections /\ [][NextSections]_vars

\* upload_documents on any list of at most MaxDocs documents
InitUpload ==
    /\ PipelineInit
    /\ TextIdle
    /\ documents \in DocLists
    /\ batch_size \in 1..MaxBatch
    /\ upc = "idle"
    /\ docs_by_employee = <<>>
    /\ gi = 0
    /\ bi = 0
    /\ calls = <<>>
    /\ total_uploaded = 0
NextUpload == upload_documents_group \/ upload_documents_batch
SpecUpload == InitUpload /\ [][NextUpload]_vars

-----------------------------------------------------------------------------
(* Properties *)

RECURSIVE SumOver(_, _, _)
\* the sum of list[j][f] over the positions j of S
SumOver(list, S, f) ==
    IF S = {} THEN 0
    ELSE LET j == CHOOSE x \in S : TRUE
         IN  list[j][f] + SumOver(list, S \ {j}, f)

Keys == DOMAIN employees.rec

\* the positions <<key, index>> of the override entries made from row idx
OverrideEntriesOfRow(idx) ==
    UNION {{<<k, j>> : j \in {x \in 1..Len(employees.rec[k].override_records) :
                                employees.rec[k].override_records[x].row = idx}} :
           k \in Keys}

EntryAt(p) == employees.rec[p[1]].override_records[p[2]]

OverrideEntryCount ==
    SumOver([k \in Keys |-> [n |-> Len(employees.rec[k].override_records)]],
            Keys, "n")

\* C1: every override row read without an exception has exactly two entries
\* in the whole map: one tagged receiver in the record of the row's receiver,
\* one tagged fc (the originator) in the record of the row's FC, the receiver
\* entry naming the key of the FC's record and the fc entry naming the key of
\* the receiver's record; when the method returns there is no other entry.
C1_OverrideDoubleEntry ==
    /\ \A i \in 1..Len(override_log) :
          LET row == override_log[i]
              P == OverrideEntriesOfRow(i - 1)
              R == {p \in P : EntryAt(p).role = "receiver"}
              F == {p \in P : EntryAt(p).role = "fc"}
          IN  /\ Cardinality(P) = 2
              /\ Cardinality(R) = 1
              /\ Cardinality(F) = 1
              /\ \A r \in R : \A f \in F :
                    /\ r[1] = str(row.receiver)
                    /\ f[1] = str(row.fc)
                    /\ EntryAt(r).FC_sabon = f[1]
                    /\ EntryAt(f).receiver_sabon = r[1]
                    /\ EntryAt(r).amount = EntryAt(f).amount
    /\ pc # "aborted" => OverrideEntryCount = 2 * Len(override_log)

\* two override rows were processed, one of them between two employees
C1_Witness ==
    /\ pc = "returned"
    /\ Len(override_log) = 2
    /\ \E i \in 1..2 : override_log[i].receiver # override_log[i].fc
    /\ \E i \in 1..2 : override_log[i].amount = NumCell(1)

ReceiverPositions(emp) ==
    {j \in 1..Len(emp.override_records) : emp.override_records[j].role = "receiver"}

FcPositions(emp) ==
    {j \in 1..Len(emp.override_records) : emp.override_records[j].role = "fc"}

\* C2: after the derivation pass, every employee's total_override is the sum
\* of the amounts of its receiver entries and its override_count their number;
\* its fc entries add nothing to either.
C2_RoleFilteredOverride ==
    pc = "returned" =>
        \A k \in Keys :
            LET emp == employees.rec[k]
            IN  /\ emp.summary_financials.total_override
                     = SumOver(emp.override_records, ReceiverPositions(emp), "amount")
                /\ emp.summary_financials.override_count
                     = Cardinality(ReceiverPositions(emp))

\* an employee holds a paid receiver entry and a paid fc entry
C2_Witness ==
    /\ pc = "returned"
    /\ \E k \in Keys :
          LET emp == employees.rec[k]
          IN  /\ \E j \in ReceiverPositions(emp) : emp.override_records[j].amount > 0
              /\ \E j \in FcPositions(emp) : emp.override_records[j].amount > 0
              /\ emp.summary_financials.total_override > 0

Summaries == [k \in Keys |-> employees.rec[k].summary_financials]

\* C3: a derivation pass run after another one leaves summary_financials of
\* every employee as it was: totals and counts are overwritten, and no other
\* key changes.
C3_IdempotentDerivation ==
    [][(calc_runs >= 1 /\ calc_runs' = calc_runs + 1) => Summaries' = Summaries]_vars

\* the pass ran twice over a record with a reported amount and a commission
C3_Witness ==
    /\ calc_runs = 2
    /\ \E k \in Keys :
          LET sf == employees.rec[k].summary_financials
          IN  /\ "final_payment" \in DOMAIN sf
              /\ sf.final_payment > 0
              /\ sf.total_commission > 0
              /\ sf.contract_count > 0

UpsertCalls == {c \in 1..Len(calls) : calls[c].call \in {"upsert", "upsert_raised"}}

\* C4: every vector given to an upsert call declares the identifier that the
\* call's namespace "employee_" + identifier embeds, and no two calls on one
\* namespace carry vectors of different identifiers.
C4_IsolationInvariant ==
    /\ \A c \in UpsertCalls :
          /\ calls[c].vectors # <<>>
          /\ \A v \in 1..Len(calls[c].vectors) :
                calls[c].namespace = "employee_" \o str(calls[c].vectors[v].sabon)
    /\ \A c, d \in UpsertCalls :
          calls[c].namespace = calls[d].namespace =>
              \A v \in 1..Len(calls[c].vectors) : \A w \in 1..Len(calls[d].vectors) :
                  calls[c].vectors[v].sabon = calls[d].vectors[w].sabon

\* an upload ended after upserts into two namespaces, one of two vectors
C4_Witness ==
    /\ upc = "done"
    /\ \E c, d \in UpsertCalls :
          /\ calls[c].call = "upsert"
          /\ calls[d].call = "upsert"
          /\ calls[c].namespace # calls[d].namespace
          /\ Len(calls[c].vectors) = 2

\* document i was handed to an embedding call
Handed(i) ==
    \E c \in 1..Len(calls) :
        /\ calls[c].call \in {"embed", "embed_raised"}
        /\ \E t \in 1..Len(calls[c].texts) : calls[c].texts[t] = documents[i]

\* C5: a document whose declared identifier disagrees with its group's
\* identifier is rejected alone: the upload is not ended by it, so every
\* document whose identifier agrees with itself is still handed on.
C5_MismatchRejectsOnlyThatDocument ==
    (upc = "raised" /\ documents # <<>>) =>
        \A i \in 1..Len(documents) :
            ~py_ne(documents[i].sabon, documents[i].sabon) => Handed(i)

\* the contribution of every source but src to a record
RestOf(emp, src) ==
    [sabon |-> emp.sabon,
     employee_profile |-> emp.employee_profile,
     commission_contracts |-> emp.commission_contracts,
     override_records |-> emp.override_records,
     policy_contracts |-> emp.policy_contracts,
     performance_records |-> emp.performance_records,
     additional_allowances |->
        [a \in DOMAIN emp.additional_allowances
               \ (IF src \in AllowanceSources THEN {AllowanceKey(src)} ELSE {}) |->
            emp.additional_allowances[a]],
     clawback_records |->
        SelectSeq(emp.clawback_records,
                  LAMBDA c : ~(src \in ClawbackSources /\ c.ctype = ClawbackType(src))),
     summary_financials |->
        [m \in DOMAIN emp.summary_financials
               \ (IF src \in ClawbackSources
                  THEN {"total_clawback", "clawback_count"} ELSE {}) |->
            emp.summary_financials[m]]]

\* a record no source but src has touched, after the derivation pass
Untouched(k) ==
    [EmployeeDataStructure EXCEPT
        !.sabon = k,
        !.summary_financials = derive_summary(EmployeeDataStructure)]

\* C6: an optional source that cannot be read or whose parsing raises does not
\* stop process_all: the later sources and the derivation pass stay reachable,
\* and when process_all has returned, what the other sources contributed to
\* every record is what they contribute in the run without that source.
C6_OptionalSourceResilience ==
    /\ (failed \cup (unreadable \cap OptionalSources)) # {} => pc # "aborted"
    /\ (pc = "returned" /\ shadow.on) =>
          /\ DOMAIN shadow.E.rec \subseteq Keys
          /\ \A k \in DOMAIN shadow.E.rec :
                RestOf(employees.rec[k], shadow.src) = RestOf(shadow.E.rec[k], shadow.src)
          /\ \A k \in Keys \ DOMAIN shadow.E.rec :
                RestOf(employees.rec[k], shadow.src) = RestOf(Untouched(k), shadow.src)

\* an allowance sheet raised, a later sheet added an entry, process_all returned
C6_Witness ==
    /\ pc = "returned"
    /\ shadow.on
    /\ shadow.src \in AllowanceSources
    /\ failed = {shadow.src}
    /\ \E k \in Keys : employees.rec[k].clawback_records # <<>>

\* C7: a source whose parsing raised contributes nothing: no employee has its
\* allowance category, no employee has a clawback entry of its type.
C7_FailedSourceContributesNothing ==
    \A src \in failed : \A k \in Keys :
        /\ src \in AllowanceSources =>
              AllowanceKey(src) \notin DOMAIN employees.rec[k].additional_allowances
        /\ src \in ClawbackSources =>
              \A j \in 1..Len(employees.rec[k].clawback_records) :
                  employees.rec[k].clawback_records[j].ctype # ClawbackType(src)

\* C8: when a required sheet cannot be read, process_all does not return.
C8_MissingRequiredSourceAborts ==
    (unreadable \cap RequiredSources) # {} => pc # "returned"

\* C9: the identifier of employee 1, typed as the integer 1, the float 1.0 or
\* the text "1", is stored under the one key "1".
C9_OneKeyPerIdentifier == \A k \in Keys : k = "1"

CommissionList == record.commission_contracts

GroupLines == SelectSeq(text.parts, LAMBDA p : p.part = "commission_group")

PartNamed(name) == CHOOSE i \in 1..Len(text.parts) : text.parts[i].part = name

InsurerPositions(key) ==
    {j \in 1..Len(CommissionList) : CommissionList[j].insurer = key}

FirstIndex(key) ==
    CHOOSE j \in InsurerPositions(key) : \A x \in InsurerPositions(key) : j <= x

WholeWon == \A j \in 1..Len(CommissionList) : CommissionList[j].payout_total % 2 = 0

\* the groups of the commission section: one line per insurer of the list, in
\* the order of first appearance, with the number of the insurer's entries and
\* the rendered sum of their payouts; the counts add up to the header's count
GroupsAsListed ==
    LET lines == GroupLines
        n == Len(lines)
    IN  /\ {lines[i].key : i \in 1..n} = {CommissionList[j].insurer : j \in 1..Len(CommissionList)}
        /\ \A i, j \in 1..n :
              i < j => /\ lines[i].key # lines[j].key
                       /\ FirstIndex(lines[i].key) < FirstIndex(lines[j].key)
        /\ \A i \in 1..n :
              /\ lines[i].count = Cardinality(InsurerPositions(lines[i].key))
              /\ lines[i].amount =
                    fmt_0f(SumOver(CommissionList, InsurerPositions(lines[i].key),
                                   "payout_total"))
        /\ SumOver(lines, 1..n, "count") = Len(CommissionList)
        /\ text.parts[PartNamed("commission_header")].count = Len(CommissionList)
        /\ text.parts[PartNamed("commission_total")].amount =
              fmt_0f(SumOver(CommissionList, 1..Len(CommissionList), "payout_total"))

GroupSumsAddUp ==
    SumOver(GroupLines, 1..Len(GroupLines), "amount")
        = text.parts[PartNamed("commission_total")].amount

\* C10 as stated: the groups are as listed, and the sums shown for the groups
\* add up to the total shown for the section.
C10_GroupSumsAlwaysAddUp ==
    (text.done /\ CommissionList # <<>>) => (GroupsAsListed /\ GroupSumsAddUp)

\* C10: the groups are as listed, each sum shown rounded to a whole number
\* (a half to the even neighbour); the sums shown add up to the total shown
\* when every payout is a whole number.
C10_CommissionGrouping ==
    (text.done /\ CommissionList # <<>>) =>
        (GroupsAsListed /\ (WholeWon => GroupSumsAddUp))

\* insurer A, then B, then A again, whole payouts: two groups, 2 and 1 entries
C10_Witness ==
    /\ text.done
    /\ Len(CommissionList) = 3
    /\ WholeWon
    /\ CommissionList[1].insurer = "A"
    /\ CommissionList[2].insurer = "B"
    /\ CommissionList[3].insurer = "A"
    /\ Len(GroupLines) = 2
    /\ GroupLines[1].count = 2
    /\ GroupLines[2].count = 1

AllPositions(list) == 1..Len(list)

\* the totals and counts of the commission, policy and clawback lists of emp
\* are in its summary_financials
ListsSummarised(emp) ==
    LET sf == emp.summary_financials
    IN  /\ DerivedKeys \subseteq DOMAIN sf
        /\ sf.total_commission
             = SumOver(emp.commission_contracts,
                       AllPositions(emp.commission_contracts), "payout_total")
        /\ sf.total_policy
             = SumOver(emp.policy_contracts, AllPositions(emp.policy_contracts),
                       "payout")
        /\ sf.total_clawback
             = SumOver(emp.clawback_records, AllPositions(emp.clawback_records),
                       "amount")
        /\ sf.contract_count = Len(emp.commission_contracts)
        /\ sf.policy_count = Len(emp.policy_contracts)
        /\ sf.clawback_count = Len(emp.clawback_records)

\* C11: when process_all has returned, every record, also one that only a
\* secondary sheet created, holds the derived totals and counts of its
\* commission, policy and clawback lists as they are; and once the derivation
\* pass has run no row is read and no list changes.
C11_SummariesAtReturn ==
    /\ [](pc = "returned" => \A k \in Keys : ListsSummarised(employees.rec[k]))
    /\ [][pc = "returned" =>
            /\ pc' = "returned"
            /\ nrows' = nrows
            /\ unreadable' = unreadable
            /\ Keys' = Keys
            /\ \A k \in Keys :
                  [employees.rec[k] EXCEPT !.summary_financials = EmptyDict]
                    = [employees'.rec[k] EXCEPT !.summary_financials = EmptyDict]]_vars

\* process_all returned a record without a profile that has a paid commission
\* and a paid clawback
C11_Witness ==
    /\ pc = "returned"
    /\ \E k \in Keys :
          /\ employees.rec[k].employee_profile = EmptyDict
          /\ employees.rec[k].summary_financials.total_commission > 0
          /\ employees.rec[k].summary_financials.total_clawback > 0

\* C12: generate_employee_centric_documents returns one employee_profile
\* document per record, with id key + "_profile" and the key as its metadata
\* identifier, in the order the records were created; a second call on the
\* same map returns the same sequence.
C12_OneDocumentPerRecord ==
    /\ \A g \in 1..Len(generated) :
          LET docs == generated[g]
          IN  /\ Len(docs) = Cardinality(Keys)
              /\ Len(docs) = Len(employees.keys)
              /\ \A i \in 1..Len(docs) :
                    /\ docs[i].doc_type = "employee_profile"
                    /\ docs[i].metadata.sabon = employees.keys[i]
                    /\ docs[i].metadata.sabon \in Keys
                    /\ docs[i].id = docs[i].metadata.sabon \o "_profile"
              /\ \A i, j \in 1..Len(docs) :
                    i # j => docs[i].metadata.sabon # docs[j].metadata.sabon
    /\ \A g, h \in 1..Len(generated) : generated[g] = generated[h]

\* two calls on a map of two records, the first created by the override sheet
\* or the performance sheet
C12_Witness ==
    /\ Len(generated) = 2
    /\ Len(generated[1]) = 2
    /\ employees.rec[employees.keys[1]].employee_profile = EmptyDict
    /\ generated[2][2].id = employees.keys[2] \o "_profile"

HasPart(name) == \E i \in 1..Len(text.parts) : text.parts[i].part = name

\* the parts of each list category's section, the header first
SectionOf ==
    [commission_contracts |-> <<"commission_header", "commission_total",
                                "commission_by_insurer", "commission_group">>,
     override_records |-> <<"override_header", "override_total", "override_group">>,
     policy_contracts |-> <<"policy_header", "policy_total">>,
     clawback_records |-> <<"clawback_header", "clawback_total", "clawback_group">>,
     performance_records |-> <<"performance_header">>]

\* C13: the section of a list category is in the text if and only if the list
\* is not empty; for an empty list no header, count, total or group line of
\* the category is produced.
C13_SectionIffNonEmpty ==
    text.done =>
        \A cat \in DOMAIN SectionOf :
            /\ record[cat] # <<>> <=> HasPart(SectionOf[cat][1])
            /\ record[cat] = <<>> =>
                  \A n \in 1..Len(SectionOf[cat]) : ~HasPart(SectionOf[cat][n])
            /\ record[cat] # <<>> =>
                  \E i \in 1..Len(text.parts) :
                      /\ text.parts[i].part = SectionOf[cat][1]
                      /\ text.parts[i].count = Len(record[cat])

\* a rendered record with a financial summary, overrides and clawbacks, and no
\* commission, policy or performance entry
C13_Witness ==
    /\ text.done
    /\ record.summary_financials # EmptyDict
    /\ record.commission_contracts = <<>>
    /\ record.policy_contracts = <<>>
    /\ record.performance_records = <<>>
    /\ Len(record.override_records) = 2
    /\ Len(record.clawback_records) = 1
    /\ HasPart("override_header")
    /\ HasPart("summary")

LinesOf(name) == SelectSeq(text.parts, LAMBDA p : p.part = name)

PositionsWith(list, f, key) == {j \in 1..Len(list) : list[j][f] = key}

FirstPosition(list, f, key) ==
    CHOOSE j \in PositionsWith(list, f, key) :
        \A x \in PositionsWith(list, f, key) : j <= x

\* the lines break list down by field f: one line per value of f in first-seen
\* order, each showing the number of the group's entries and the rendered sum
\* of their amounts
BrokenDown(lines, list, f) ==
    /\ {lines[i].key : i \in 1..Len(lines)} = {list[j][f] : j \in 1..Len(list)}
    /\ \A i, j \in 1..Len(lines) :
          i < j => FirstPosition(list, f, lines[i].key)
                     < FirstPosition(list, f, lines[j].key)
    /\ \A i \in 1..Len(lines) :
          /\ lines[i].amount
               = fmt_0f(SumOver(list, PositionsWith(list, f, lines[i].key), "amount"))
          /\ "count" \in DOMAIN lines[i]
          /\ lines[i].count = Cardinality(PositionsWith(list, f, lines[i].key))

\* C14: a non-empty override list is broken down by override type and a
\* non-empty clawback list by clawback type, every group shown with its number
\* of entries and the sum of its amounts, groups in first-seen order.
C14_GroupsShowCountAndSum ==
    text.done =>
        /\ record.override_records # <<>> =>
              BrokenDown(LinesOf("override_group"), record.override_records, "otype")
        /\ record.clawback_records # <<>> =>
              BrokenDown(LinesOf("clawback_group"), record.clawback_records, "ctype")

\* the identifiers the latest row names, by role; a blank cell of a required
\* sheet names "None", a blank cell of the performance, allowance and clawback
\* sheets names nobody
NonBlank(cells) == {str(c) : c \in {x \in cells : pd_notna(x)}}

ReferencedByLast ==
    CASE last.src \in {"roster", "commission", "policy"} -> {str(last.row.sabon)}
      [] last.src = "override" -> {str(last.row.receiver), str(last.row.fc)}
      [] last.src = "performance" ->
            NonBlank({last.row.collector, last.row.recruiter, last.row.original})
      [] last.src \in AllowanceSources \cup ClawbackSources ->
            NonBlank({last.row.sabon})
      [] OTHER -> {}

\* C15: every identifier named, in any role, by a row that was processed has a
\* record from then on: the latest processed row's identifiers are keys of the
\* map, and no step removes a key.
C15_RecordsCreatedAndKept ==
    /\ []((last.src # "" /\ ~last.raised) => ReferencedByLast \subseteq Keys)
    /\ [][Keys \subseteq Keys']_vars

\* a performance row named two employees no earlier sheet had created, after
\* an override row had created one for its FC
C15_Witness ==
    /\ last.src = "performance"
    /\ Cardinality(ReferencedByLast) = 2
    /\ Len(override_log) = 1
    /\ Cardinality(Keys) = 3
    /\ \E k \in Keys : employees.rec[k].override_records = <<>>

ListFields ==
    {"commission_contracts", "override_records", "policy_contracts",
     "performance_records", "clawback_records"}

IsPrefix(s, t) == Len(s) <= Len(t) /\ SubSeq(t, 1, Len(s)) = s

\* the receiver entry of the latest override row is as it was appended
ReceiverEntryIntact ==
    (last.src = "override" /\ ~last.raised) =>
        \E j \in 1..Len(employees.rec[str(last.row.receiver)].override_records) :
            LET e == employees.rec[str(last.row.receiver)].override_records[j]
            IN  /\ e.row = Len(override_log) - 1
                /\ e.role = "receiver"
                /\ DOMAIN e = {"role", "otype", "FC_sabon", "amount", "row"}
                /\ e.FC_sabon = str(last.row.fc)

\* C16: the five lists of every record are append-only: every step leaves
\* each list's content as a prefix of its new content; and tagging the fc copy
\* of an override row leaves the receiver entry of that row as appended.
C16_ListsAppendOnly ==
    /\ [][\A k \in Keys : \A f \in ListFields :
             IsPrefix(employees.rec[k][f], employees'.rec[k][f])]_vars
    /\ []ReceiverEntryIntact

\* the second override row was added to a record that held both entries of
\* the first
C16_Witness ==
    /\ last.src = "override"
    /\ ~last.raised
    /\ Len(override_log) = 2
    /\ \E k \in Keys :
          /\ Len(employees.rec[k].override_records) >= 3
          /\ employees.rec[k].override_records[1].role = "receiver"
          /\ employees.rec[k].override_records[2].role = "fc"

RoleColumns ==
    << [column |-> "collector", role |-> "collector_LP"],
       [column |-> "recruiter", role |-> "recruiter_LP"],
       [column |-> "original", role |-> "original_recruiter_FC"] >>

\* the role columns of a performance row that name employee k, in column order
ColumnsNaming(row, k) ==
    SelectSeq(RoleColumns,
              LAMBDA c : row[c.column] # NoneCell /\ str(row[c.column]) = k)

NonBlankColumns(row) ==
    Cardinality({i \in 1..Len(RoleColumns) : row[RoleColumns[i].column] # NoneCell})

PerformanceOf(E, k) == IF k \in DOMAIN E.rec THEN E.rec[k].performance_records ELSE <<>>

RECURSIVE PerformanceCount(_, _)
PerformanceCount(E, S) ==
    IF S = {} THEN 0
    ELSE LET k == CHOOSE x \in S : TRUE
         IN  Len(E.rec[k].performance_records) + PerformanceCount(E, S \ {k})

PerformanceTotal(E) == PerformanceCount(E, DOMAIN E.rec)

\* what a performance row just read must have added
PerformanceRowAdds(row) ==
    /\ \A k \in Keys' :
          LET old == PerformanceOf(employees, k)
              new == PerformanceOf(employees', k)
              named == ColumnsNaming(row, k)
          IN  /\ Len(new) = Len(old) + Len(named)
              /\ SubSeq(new, 1, Len(old)) = old
              /\ \A i \in 1..Len(named) : new[Len(old) + i].role = named[i].role
    /\ PerformanceTotal(employees') = PerformanceTotal(employees) + NonBlankColumns(row)

\* C17: a performance row adds to each named employee's performance_records
\* one entry per non-blank role column naming them, tagged with that role, in
\* column order; a blank column adds nothing; the total added by the row is
\* its number of non-blank role columns, also when one employee is named in
\* several of them.
C17_OneEntryPerRoleColumn ==
    [][(pc' = "performance" /\ nrows' = nrows + 1) => PerformanceRowAdds(last'.row)]_vars

\* a row naming one employee as collector and recruiter and leaving the
\* original recruiter blank has added two entries to that employee
C17_Witness ==
    /\ last.src = "performance"
    /\ last.row.collector # NoneCell
    /\ last.row.recruiter = last.row.collector
    /\ last.row.original = NoneCell
    /\ Len(employees.rec[str(last.row.collector)].performance_records) = 2
    /\ nrows = 1

AllowancesOf(E, k) ==
    IF k \in DOMAIN E.rec THEN E.rec[k].additional_allowances ELSE EmptyDict

RetentionItems(d) == IF "retention13" \in DOMAIN d THEN d["retention13"].items ELSE <<>>

\* what an allowance row just read must have done to additional_allowances
AllowanceRowEffect(src, row, raised) ==
    LET named == IF row.sabon # NoneCell /\ ~raised THEN {str(row.sabon)} ELSE {}
        key == AllowanceKey(src)
    IN  /\ \A k \in Keys' \ named : AllowancesOf(employees', k) = AllowancesOf(employees, k)
        /\ \A k \in named :
              LET old == AllowancesOf(employees, k)
                  new == AllowancesOf(employees', k)
              IN  /\ DOMAIN new = DOMAIN old \cup {key}
                  /\ \A j \in DOMAIN old \ {key} : new[j] = old[j]
                  /\ IF src = "allow_retention13"
                     THEN /\ new[key].kind = "list"
                          /\ new[key].items =
                                Append(RetentionItems(old),
                                       [paid |-> float_or_0(row.amount)])
                     ELSE new[key] = [kind |-> "one", amount |-> float_or_0(row.amount)]

\* C18: a row of a one-structure allowance sheet sets the employee's entry of
\* that category to the row's structure whatever was there (last row wins);
\* a row of the retention sheet appends its structure to the employee's list,
\* so the list holds one item per processed row of the employee, in row order.
C18_AllowanceCardinality ==
    [][(pc' \in AllowanceSources /\ nrows' = nrows + 1)
          => AllowanceRowEffect(pc', last'.row, last'.raised)]_vars

\* two retention rows for one employee with different amounts are both in
\* the list, in row order
C18_Witness ==
    /\ pc = "allow_retention13"
    /\ ridx = 2
    /\ ~last.raised
    /\ last.row.sabon # NoneCell
    /\ LET items == RetentionItems(AllowancesOf(employees, str(last.row.sabon)))
       IN  /\ Len(items) = 2
           /\ items[1] # items[2]
           /\ items[2].paid = float_or_0(last.row.amount)

ProfileOf(E, k) == IF k \in DOMAIN E.rec THEN E.rec[k].employee_profile ELSE EmptyDict

SummaryOf(E, k) == IF k \in DOMAIN E.rec THEN E.rec[k].summary_financials ELSE EmptyDict

\* the entries of a summary the roster reported
Reported(d) == [j \in DOMAIN d \ DerivedKeys |-> d[j]]

ProfileAndSummaryKept(S) ==
    \A k \in S :
        /\ ProfileOf(employees', k) = ProfileOf(employees, k)
        /\ SummaryOf(employees', k) = SummaryOf(employees, k)

\* a roster row sets the profile and, unless a conversion raised, the summary
\* of the employee it names, and of no other
RosterRowEffect(row, raised) ==
    LET k == str(row.sabon)
    IN  /\ ProfileAndSummaryKept(Keys' \ {k})
        /\ ProfileOf(employees', k) = [name |-> row.name]
        /\ SummaryOf(employees', k) =
              IF raised THEN SummaryOf(employees, k)
              ELSE [final_payment |-> float_or_0(row.amount)]

DerivationEffect ==
    \A k \in Keys' :
        /\ ProfileOf(employees', k) = ProfileOf(employees, k)
        /\ Reported(SummaryOf(employees', k)) = Reported(SummaryOf(employees, k))

\* C19: only a roster row writes employee_profile and the reported entries
\* of summary_financials, for the employee it names and replacing what an
\* earlier roster row wrote; every other row step leaves both as they were
\* for every record; the derivation pass changes only the derived keys.
C19_ProfileAndReportedFrame ==
    [][IF calc_runs' # calc_runs THEN DerivationEffect
       ELSE IF nrows' = nrows + 1 /\ last'.src = "roster" /\ "sabon" \in DOMAIN last'.row
            THEN RosterRowEffect(last'.row, last'.raised)
            ELSE ProfileAndSummaryKept(Keys')]_vars

\* the roster named one employee in both of its rows; the later sheets and
\* the derivation ran; the record holds the second row's name and amount
C19_Witness ==
    /\ pc = "returned"
    /\ nrows = 2
    /\ last.src = "roster"
    /\ ~last.raised
    /\ Keys = {str(last.row.sabon)}
    /\ ProfileOf(employees, str(last.row.sabon)) = [name |-> last.row.name]
    /\ Reported(SummaryOf(employees, str(last.row.sabon)))
          = [final_payment |-> float_or_0(last.row.amount)]
    /\ DerivedKeys \subseteq DOMAIN SummaryOf(employees, str(last.row.sabon))

\* the documents a call carried
Payload(c) ==
    IF calls[c].call \in {"embed", "embed_raised"} THEN calls[c].texts
    ELSE calls[c].vectors

Carries(c, i) == \E p \in 1..Len(Payload(c)) : Payload(c)[p] = documents[i]

RECURSIVE VectorsUpserted(_)
\* the vectors of the upsert calls that returned, over the first n calls
VectorsUpserted(n) ==
    IF n = 0 THEN 0
    ELSE VectorsUpserted(n - 1)
         + (IF calls[n].call = "upsert" THEN Len(calls[n].vectors) ELSE 0)

\* C20: every embedding call and every upsert call carries at most batch_size
\* documents; the documents of a batch whose embedding call or upsert call
\* failed are in no upsert call that returned; no document is handed to
\* upsert twice; the count reported is the number of vectors of the upsert
\* calls that returned; and such a failure ends nothing: the upload runs to
\* its end with every document handed to an embedding call, unless the
\* identifier check of a batch raised.
C20_BatchFailureConfined ==
    /\ \A c \in 1..Len(calls) :
          Len(Payload(c)) >= 1 /\ Len(Payload(c)) <= batch_size
    /\ total_uploaded = VectorsUpserted(Len(calls))
    /\ \A i \in 1..Len(documents) :
          /\ Cardinality({c \in UpsertCalls : Carries(c, i)}) <= 1
          /\ \A c \in UpsertCalls : \A p, q \in 1..Len(calls[c].vectors) :
                calls[c].vectors[p] = calls[c].vectors[q] => p = q
          /\ (\E c \in 1..Len(calls) :
                 calls[c].call = "embed_raised" /\ Carries(c, i))
             => \A d \in UpsertCalls : ~Carries(d, i)
    /\ upc = "done" => \A i \in 1..Len(documents) : Handed(i)
    /\ (upc = "raised" /\ documents # <<>>) =>
          /\ calls[Len(calls)].call = "embed"
          /\ \E t \in 1..Len(calls[Len(calls)].texts) :
                py_ne(calls[Len(calls)].texts[t].sabon, calls[Len(calls)].texts[t].sabon)

\* an upload ended after a failed embedding call, then a failed upsert call,
\* then an upsert call that returned and is the whole count
C20_Witness ==
    /\ upc = "done"
    /\ \E c, d, e \in 1..Len(calls) :
          /\ c < d /\ d < e
          /\ calls[c].call = "embed_raised"
          /\ calls[d].call = "upsert_raised"
          /\ calls[e].call = "upsert"
          /\ total_uploaded = Len(calls[e].vectors)

\* the logged override rows (as indices of override_log) whose receiver is k
RowsReceivedBy(k) == {i \in 1..Len(override_log) : str(override_log[i].receiver) = k}

SelfOverrideRows ==
    {i \in 1..Len(override_log) :
        str(override_log[i].receiver) = str(override_log[i].fc)}

RECURSIVE LoggedAmount(_)
\* the amounts of a set of logged rows, added up
LoggedAmount(S) ==
    IF S = {} THEN 0
    ELSE LET i == CHOOSE x \in S : TRUE
         IN  float_or_0(override_log[i].amount) + LoggedAmount(S \ {i})

\* C21: a processed override row whose receiver is its own FC has both its
\* entries in that employee's override list, the receiver entry immediately
\* followed by the fc entry, and no other entry; after the derivation pass the
\* employee's total_override and override_count are the sum and the number
\* of the processed rows that name them as receiver, so the row counts once.
C21_SelfOverride ==
    /\ \A i \in SelfOverrideRows :
          LET k == str(override_log[i].receiver)
              list == employees.rec[k].override_records
              at == {j \in 1..Len(list) : list[j].row = i - 1}
          IN  /\ k \in Keys
              /\ \E j \in 1..(Len(list) - 1) :
                    /\ at = {j, j + 1}
                    /\ list[j].role = "receiver"
                    /\ list[j + 1].role = "fc"
                    /\ list[j].FC_sabon = k
                    /\ list[j + 1].receiver_sabon = k
                    /\ list[j].amount = float_or_0(override_log[i].amount)
                    /\ list[j + 1].amount = list[j].amount
    /\ pc = "returned" =>
          \A i \in SelfOverrideRows :
              LET k == str(override_log[i].receiver)
                  sf == employees.rec[k].summary_financials
              IN  /\ sf.total_override = LoggedAmount(RowsReceivedBy(k))
                  /\ sf.override_count = Cardinality(RowsReceivedBy(k))

\* process_all returned after a paid self-override row and a paid row the
\* same employee originated for another receiver
C21_Witness ==
    /\ pc = "returned"
    /\ Len(override_log) = 2
    /\ \E i \in SelfOverrideRows : \E o \in 1..2 :
          LET k == str(override_log[i].receiver)
          IN  /\ override_log[i].amount = NumCell(1)
              /\ str(override_log[o].fc) = k
              /\ str(override_log[o].receiver) # k
              /\ override_log[o].amount = NumCell(1)
              /\ employees.rec[k].summary_financials.override_count = 1
              /\ Len(employees.rec[k].override_records) = 3

PartsNamed(parts, name) == SelectSeq(parts, LAMBDA p : p.part = name)

\* the override section of a document's text shows the derived count
SectionCountIsDerived(doc) ==
    \A i \in 1..Len(PartsNamed(doc.text, "override_header")) :
        PartsNamed(doc.text, "override_header")[i].count
            = employees.rec[doc.metadata.sabon].summary_financials.override_count

\* the override section of a document's text shows the derived total, as the
\* summary block of the text and the metadata of the document have it
SectionTotalIsDerived(doc) ==
    \A i \in 1..Len(PartsNamed(doc.text, "override_total")) :
        /\ PartsNamed(doc.text, "override_total")[i].amount
              = fmt_0f(doc.metadata.total_override)
        /\ \A s \in 1..Len(PartsNamed(doc.text, "summary")) :
              PartsNamed(doc.text, "override_total")[i].amount
                  = PartsNamed(doc.text, "summary")[s].total_override

\* C22: in every document generated after process_all, the count and the
\* total shown in the override section of the text are the derived
\* override_count and total_override of the record (the total of the summary
\* block and of the metadata): fc entries are counted in neither.
C22_OverrideSectionMatchesDerived ==
    \A g \in 1..Len(generated) : \A i \in 1..Len(generated[g]) :
        /\ SectionCountIsDerived(generated[g][i])
        /\ SectionTotalIsDerived(generated[g][i])

\* what str() makes of a blank cell, and the empty identifier
BlankKeys == {"", str(NoneCell), str(NanCell(1))}

\* every record stores the key it is stored under
KeyIsStoredIdentifier == \A k \in Keys : employees.rec[k].sabon = k

\* C23: in every state of process_all each record stores the identifier it
\* is keyed by, and no record is keyed by the empty identifier or by the
\* text a blank cell is converted to: a row with a blank identifier cell
\* creates no record.
C23_NoBlankIdentifierRecord ==
    /\ KeyIsStoredIdentifier
    /\ Keys \cap BlankKeys = {}

=============================================================================
